---- MODULE Spec2Model ----
(***************************************************************************)
(* Model of the Zed extension for jake, editors/zed-jake/src/lib.rs.       *)
(*                                                                         *)
(* JakeExtension is a unit struct implementing zed::Extension with two     *)
(* callbacks, complete_slash_command_argument and run_slash_command.  The  *)
(* host owns one instance and calls the callbacks one at a time.  The      *)
(* model records the call the host made last and the value it got back,    *)
(* and, as a history variable, the call the host made on the fresh         *)
(* instance.                                                               *)
(*                                                                         *)
(* Rust Strings are TLA+ strings: format! is concatenation (\o) and        *)
(* String::len is Len.  The strings drawn below are ASCII, where the byte  *)
(* length that String::len returns is the number of characters.            *)
(***************************************************************************)
EXTENDS Integers, Sequences, FiniteSets, TLC

VARIABLES
    self,     \* the extension instance the host holds
    last,     \* the callback the host invoked last, with its inputs
    result,   \* the value that callback returned
    first,    \* history: the call made on the fresh instance, with its result
    called    \* history: the callbacks invoked so far

vars == <<self, last, result, first, called>>

-----------------------------------------------------------------------------
(* Inputs the host may pass.                                               *)

\* Longest argument list the host passes.
MaxArgs == 2

\* Command names: the registered one, names resembling it, the empty name
\* and an unrelated one.
Names == {"jake", "Jake", "JAKE", "jakes", "", "other"}

\* Argument tokens, the empty token included.
Tokens == {"", "build"}

RECURSIVE SeqsUpTo(_, _)
SeqsUpTo(S, n) ==
    IF n = 0 THEN {<<>>}
    ELSE LET shorter == SeqsUpTo(S, n - 1)
         IN  shorter \cup {Append(s, t) : s \in {u \in shorter : Len(u) = n - 1}, t \in S}

ArgLists == SeqsUpTo(Tokens, MaxArgs)

\* zed::SlashCommand, of which the callbacks read the name only.
SlashCommand(name) == [name |-> name]

Commands == {SlashCommand(n) : n \in Names}

-----------------------------------------------------------------------------
(* Result<T, String>                                                       *)

Ok(v) == [tag |-> "Ok", value |-> v]
Err(e) == [tag |-> "Err", error |-> e]

\* Range<usize> converted into zed's Range: start inclusive, end exclusive.
Range(start, end) == [start |-> start, end |-> end]

SlashCommandOutputSection(range, label) == [range |-> range, label |-> label]

SlashCommandOutput(text, sections) == [text |-> text, sections |-> sections]

-----------------------------------------------------------------------------
(* JakeExtension                                                           *)

\* fn new() -> Self { JakeExtension }: a struct without fields.
new == "JakeExtension"

\* A mistaken match: an unknown name rejected, as run_slash_command does.
CompleteSlashCommandArgumentStrict(command, args) ==
    IF command.name = "jake"
    THEN Ok(<<>>)
    ELSE Err("Unknown command: " \o command.name)

\* complete_slash_command_argument: both arms of the match return Ok(vec![]).
CompleteSlashCommandArgument(command, args) ==
    IF command.name = "jake"
    THEN Ok(<<>>)
    ELSE Ok(<<>>)

\* A mistaken pattern: the name compared without regard to case.
IsJakeIgnoreCase(name) == name \in {"jake", "Jake", "JAKE"}

\* the pattern "jake" of the match in run_slash_command
IsJake(name) == name = "jake"

Option(present, v) == [some |-> present, value |-> v]

\* A mistaken accessor: args.last() in place of args.first().
Last(args) ==
    IF Len(args) = 0 THEN Option(FALSE, "") ELSE Option(TRUE, args[Len(args)])

\* A mistaken accessor: an empty first token counted as no token.
FirstNonEmpty(args) ==
    IF Len(args) = 0 \/ args[1] = "" THEN Option(FALSE, "") ELSE Option(TRUE, args[1])

\* args.first(): Some(&args[0]) unless the vector is empty.
First(args) ==
    IF Len(args) = 0 THEN Option(FALSE, "") ELSE Option(TRUE, args[1])

\* format!("jake {}", recipe)
FormatText(recipe) == "jake " \o recipe

\* A mistaken label: the prefix without the program name.
FormatLabelShort(recipe) == "Run: " \o recipe

\* format!("Run: jake {}", recipe)
FormatLabel(recipe) == "Run: jake " \o recipe

\* A mistaken message: the offending name left out.
FormatUnknownBare(name) == "Unknown command"

\* format!("Unknown command: {}", command.name)
FormatUnknown(name) == "Unknown command: " \o name

\* the literal handed to ok_or
MissingRecipe == "Please specify a recipe name"

\* A mistaken range: 0..=text.len(), one past the end of the text.
TextRangeInclusive(text) == Range(0, Len(text) + 1)

\* (0..text.len()).into()
TextRange(text) == Range(0, Len(text))

\* A mistaken arm: a default recipe where the argument is missing.
RunJakeDefault(args) ==
    LET recipe == First(args)
        name == IF recipe.some THEN recipe.value ELSE "default"
        text == FormatText(name)
    IN  Ok(SlashCommandOutput(
            text,
            <<SlashCommandOutputSection(TextRange(text), FormatLabel(name))>>))

\* the "jake" arm of run_slash_command
RunJake(args) ==
    LET recipe == First(args)
    IN  IF ~recipe.some
        THEN Err(MissingRecipe)
        ELSE LET text == FormatText(recipe.value)
             IN  Ok(SlashCommandOutput(
                     text,
                     <<SlashCommandOutputSection(TextRange(text),
                                                 FormatLabel(recipe.value))>>))

\* A mistaken match: the argument check ahead of the name check.
RunSlashCommandArgsFirst(command, args) ==
    IF Len(args) = 0
    THEN Err(MissingRecipe)
    ELSE IF IsJake(command.name)
         THEN RunJake(args)
         ELSE Err(FormatUnknown(command.name))

\* match command.name.as_str() { "jake" => ..., _ => Err(...) }
RunSlashCommand(command, args) ==
    IF IsJake(command.name)
    THEN RunJake(args)
    ELSE Err(FormatUnknown(command.name))

-----------------------------------------------------------------------------
(* The host calling the extension.                                         *)

NoCall == [op |-> "none"]
NoResult == [tag |-> "None"]

Call(op, command, args) == [op |-> op, command |-> command, args |-> args]

Init ==
    /\ self = new
    /\ last = NoCall
    /\ result = NoResult
    /\ first = [call |-> NoCall, result |-> NoResult]
    /\ called = {}

\* The history variable keeps the call that found the instance fresh.
Record(call, res) ==
    IF last = NoCall THEN [call |-> call, result |-> res] ELSE first

complete_slash_command_argument ==
    \E command \in Commands, args \in ArgLists :
        LET res == CompleteSlashCommandArgument(command, args)
        IN  /\ last' = Call("complete", command, args)
            /\ result' = res
            /\ first' = Record(last', res)
            /\ called' = called \cup {last'.op}
            /\ UNCHANGED self

\* A mistaken handler: the previous output kept and returned again for the
\* same command, whatever the arguments.
run_slash_command_cached ==
    \E command \in Commands, args \in ArgLists :
        LET res == IF last.op = "run" /\ last.command = command
                   THEN result
                   ELSE RunSlashCommand(command, args)
        IN  /\ last' = Call("run", command, args)
            /\ result' = res
            /\ first' = Record(last', res)
            /\ called' = called \cup {last'.op}
            /\ UNCHANGED self

run_slash_command ==
    \E command \in Commands, args \in ArgLists :
        LET res == RunSlashCommand(command, args)
        IN  /\ last' = Call("run", command, args)
            /\ result' = res
            /\ first' = Record(last', res)
            /\ called' = called \cup {last'.op}
            /\ UNCHANGED self

Next ==
    \/ complete_slash_command_argument
    \/ run_slash_command

Spec == Init /\ [][Next]_vars

-----------------------------------------------------------------------------
(* Properties of the callbacks.                                            *)

RunCalled == last.op = "run"
CompleteCalled == last.op = "complete"
RunJakeCalled == RunCalled /\ last.command.name = "jake"

\* C1: run_slash_command for "jake" with a non-empty argument list whose
\* first element is r succeeds with text "jake " + r and exactly one section,
\* of range [0, len(text)) and label "Run: jake " + r, which is "Run: " + text.
C1_SuccessFormat ==
    (RunJakeCalled /\ Len(last.args) > 0) =>
        /\ result.tag = "Ok"
        /\ result.value.text = "jake " \o last.args[1]
        /\ Len(result.value.sections) = 1
        /\ result.value.sections[1].range.start = 0
        /\ result.value.sections[1].range.end = Len(result.value.text)
        /\ result.value.sections[1].label = "Run: jake " \o last.args[1]
        /\ result.value.sections[1].label = "Run: " \o result.value.text

C1_Witness ==
    /\ RunJakeCalled
    /\ last.args = <<"build">>
    /\ result.tag = "Ok"
    /\ result.value.text = "jake build"
    /\ result.value.sections[1].range.end = 10

\* C2: run_slash_command for "jake" with an empty argument list returns an
\* error, not an output, and the message is "Please specify a recipe name".
C2_MissingArgument ==
    (RunJakeCalled /\ last.args = <<>>) =>
        /\ result.tag = "Err"
        /\ result.error = "Please specify a recipe name"

C2_Witness ==
    /\ RunJakeCalled
    /\ last.args = <<>>
    /\ result.tag = "Err"

\* C3: run_slash_command for a name n other than "jake" returns, whatever the
\* arguments, the error "Unknown command: " + n and never an output.
C3_UnknownCommand ==
    (RunCalled /\ last.command.name # "jake") =>
        /\ result.tag = "Err"
        /\ result.error = "Unknown command: " \o last.command.name

C3_Witness ==
    /\ RunCalled
    /\ last.command.name = "other"
    /\ last.args = <<"build">>
    /\ result.tag = "Err"
    /\ result.error = "Unknown command: other"

\* C4: complete_slash_command_argument succeeds with an empty sequence of
\* suggestions for every command name and every argument list.
C4_CompletionEmpty ==
    CompleteCalled =>
        /\ result.tag = "Ok"
        /\ result.value = <<>>

C4_Witness ==
    /\ CompleteCalled
    /\ last.command.name = "other"
    /\ last.args = <<"build", "">>
    /\ result.tag = "Ok"

\* C5: two calls of run_slash_command for "jake" with non-empty argument
\* lists that agree on the first element return identical results, whatever
\* the remaining arguments.
C5_OnlyFirstArgument ==
    ( /\ RunJakeCalled
      /\ first.call.op = "run"
      /\ first.call.command.name = "jake"
      /\ Len(last.args) > 0
      /\ Len(first.call.args) > 0
      /\ last.args[1] = first.call.args[1] ) =>
        result = first.result

C5_Witness ==
    /\ RunJakeCalled
    /\ first.call.op = "run"
    /\ first.call.command.name = "jake"
    /\ first.call.args = <<"build">>
    /\ last.args = <<"build", "">>
    /\ result.tag = "Ok"

\* C6: a call of run_slash_command made after any sequence of calls of the
\* two callbacks returns what the same call returned on the fresh instance,
\* and the instance itself is as constructed.
C6_Stateless ==
    /\ self = new
    /\ (RunCalled /\ first.call = last) => result = first.result

\* The call that was made first is made again after a call of the other
\* callback has come in between.
C6_Witness ==
    /\ RunJakeCalled
    /\ called = {"complete", "run"}
    /\ last.args = <<"", "build">>
    /\ first.call = last
    /\ result = first.result
    /\ result.tag = "Ok"

\* C7: in every output of run_slash_command each section's range lies within
\* the text: 0 <= start <= end <= len(text), the empty recipe included.
C7_SectionBounds ==
    (RunCalled /\ result.tag = "Ok") =>
        \A i \in DOMAIN result.value.sections :
            LET range == result.value.sections[i].range
            IN  /\ 0 <= range.start
                /\ range.start <= range.end
                /\ range.end <= Len(result.value.text)

C7_Witness ==
    /\ RunCalled
    /\ result.tag = "Ok"
    /\ last.args = <<"", "">>
    /\ result.value.sections[1].range.end = Len(result.value.text)

\* C8: run_slash_command returns an output iff the name is exactly "jake" and
\* the argument list is non-empty; each call ends in exactly one of an
\* output, the missing-argument error and the unknown-command error; names
\* that resemble "jake" are unknown commands.
C8_Outcomes ==
    RunCalled =>
        LET isOutput == result.tag = "Ok"
            isMissing == result.tag = "Err" /\ result.error = "Please specify a recipe name"
            isUnknown == result.tag = "Err"
                         /\ result.error = "Unknown command: " \o last.command.name
        IN  /\ isOutput <=> (last.command.name = "jake" /\ last.args # <<>>)
            /\ isOutput \/ isMissing \/ isUnknown
            /\ ~(isOutput /\ isMissing)
            /\ ~(isOutput /\ isUnknown)
            /\ ~(isMissing /\ isUnknown)
            /\ last.command.name \in {"Jake", "JAKE", "jakes", ""} => isUnknown

C8_Witness ==
    /\ RunCalled
    /\ last.command.name = "Jake"
    /\ last.args = <<"build", "build">>
    /\ result.tag = "Err"
    /\ result.error = "Unknown command: Jake"

\* C9: the name is checked before the arguments: a name other than "jake"
\* with an empty argument list gets the unknown-command error, and the
\* missing-argument error is returned for "jake" only.
C9_NameBeforeArguments ==
    RunCalled =>
        /\ (last.command.name # "jake" /\ last.args = <<>>) =>
               /\ result.tag = "Err"
               /\ result.error = "Unknown command: " \o last.command.name
               /\ result.error # "Please specify a recipe name"
        /\ (result.tag = "Err" /\ result.error = "Please specify a recipe name") =>
               last.command.name = "jake"

C9_Witness ==
    /\ RunCalled
    /\ last.command.name = "jakes"
    /\ last.args = <<>>
    /\ result.tag = "Err"
    /\ result.error = "Unknown command: jakes"

\* C10: run_slash_command for "jake" with an empty string as first argument
\* succeeds with the text "jake " of length 5 and one section of range [0, 5)
\* and label "Run: jake "; it is not the missing-argument error.
C10_EmptyRecipe ==
    (RunJakeCalled /\ Len(last.args) > 0 /\ last.args[1] = "") =>
        /\ result.tag = "Ok"
        /\ result.value.text = "jake "
        /\ Len(result.value.text) = 5
        /\ Len(result.value.sections) = 1
        /\ result.value.sections[1].range = [start |-> 0, end |-> 5]
        /\ result.value.sections[1].label = "Run: jake "

C10_Witness ==
    /\ RunJakeCalled
    /\ last.args = <<"">>
    /\ result.tag = "Ok"
    /\ result.value.text = "jake "

====
